---- MODULE Spec2Model ----
(***************************************************************************)
(* A model of pdf_processor.py: the PDFProcessor class (compress_pdf,      *)
(* split_pdf, _run_ghostscript, _get_gs_preset) and the command line       *)
(* front end main().  One run of the model is one call: either main() with *)
(* parsed arguments, or a direct call of one of the methods.               *)
(*                                                                         *)
(* Optional values (Python's None) are sequences: << >> is None and <<v>>  *)
(* is the value v.  A document is the sequence of its pages' encoded sizes *)
(* (what the one-page temporary file measures); a page is its index.       *)
(***************************************************************************)
EXTENDS Integers, Sequences, FiniteSets, TLC

\* ----------------------------------------------------------------- bounds
MaxPages == 3
MaxPageUnits == 3
ScenarioPages == 10
MaxSplitMb == 4
MaxInputMb == 2
MaxDpi == 302

\* ------------------------------------------------------------ environment
MiB == 1024 * 1024
PageUnit == MiB \div 2
PageSizes == {u * PageUnit : u \in 1..MaxPageUnits}

RECURSIVE SeqsUpTo(_, _)
SeqsUpTo(S, n) ==
    IF n = 0 THEN {<< >>}
    ELSE LET shorter == SeqsUpTo(S, n - 1)
         IN  shorter \cup {Append(s, x) : s \in {t \in shorter : Len(t) = n - 1}, x \in S}

UniformDoc(n, size) == [i \in 1..n |-> size]

\* The documents: every short one, and the long ones of equal-size pages.
Documents ==
    SeqsUpTo(PageSizes, MaxPages) \cup {UniformDoc(ScenarioPages, s) : s \in PageSizes}

InputSizes == {0} \cup {i * MiB + d : i \in 1..MaxInputMb, d \in {0, 1}}
SplitSizes == (-1)..MaxSplitMb
QualityNames == {"low", "medium", "high", "best", "LOW", ""}
CliQualityChoices == {"low", "medium", "high"}
Dpis == (-1)..MaxDpi
QualityPercents == {30, 75, 100}
OutputPath == "out/small.pdf"
ExitStatuses == {0, 1}

InputPath == [dir |-> "docs", stem |-> "report", suffix |-> << >>, ext |-> "pdf"]
GivenPrefix == [dir |-> "out", stem |-> "chunk"]

\* ------------------------------------------------------------------ state
VARIABLES
    pc,                     \* position in the program
    caller,                 \* "none" | "main" | "api"
    argv,                   \* << >> or <<the parsed command line>>
    mode,                   \* the branch main() took: "none" | "split" | "compress"
    called,                 \* the method called: "none" or its name
    doc,                    \* the input document: its pages' encoded sizes
    input_size,             \* the input file's size on disk
    max_size_mb,            \* split_pdf's parameters and locals
    output_prefix,
    max_size_bytes,
    parts,
    current_part,
    current_writer,
    current_size_estimate,
    page_idx,
    part_files,             \* part files written, in order
    temp_files,             \* NamedTemporaryFile's created so far
    quality,                \* compress_pdf's parameters and locals
    temp_dir,               \* "none" | "exists" | "removed"
    temp_pdf,               \* the intermediate file was written
    input_opens,            \* times the input file was opened
    gs_dpi,                 \* _run_ghostscript's parameters
    gs_quality,
    gs_located,             \* "unknown" | "found" | "missing"
    gs_runs,                \* engine invocations
    gs_cmd,                 \* << >> or <<the command run>>
    gs_exit,                \* << >> or <<the engine's exit status>>
    output_written,
    outcome,                \* "none" | "returned" | the exception raised
    retval,                 \* split_pdf's return value
    exit_code               \* << >> or <<the process's exit status>>

splitVars == <<max_size_mb, output_prefix, max_size_bytes, parts, current_part,
               current_writer, current_size_estimate, page_idx, part_files,
               temp_files, retval>>
compressVars == <<quality, temp_dir, temp_pdf>>
gsVars == <<gs_dpi, gs_quality, gs_located, gs_runs, gs_cmd, gs_exit, output_written>>
envVars == <<doc, input_size>>
cliVars == <<caller, argv, mode, called>>
vars == <<pc, cliVars, envVars, splitVars, compressVars, gsVars, input_opens,
          outcome, exit_code>>

\* ---------------------------------------------------------------- helpers
RECURSIVE SumSeq(_)
SumSeq(s) == IF s = << >> THEN 0 ELSE s[1] + SumSeq(Tail(s))

RECURSIVE Concat(_)
Concat(ss) == IF ss = << >> THEN << >> ELSE ss[1] \o Concat(Tail(ss))

\* Python truthiness of an optional int and of an optional string.
TruthyInt(opt) == opt # << >> /\ opt[1] # 0
TruthyStr(opt) == opt # << >> /\ opt[1] # ""

ValueError == "ValueError: Invalid quality level"
GsNotFound == "RuntimeError: Ghostscript (gs) not found"
GsFailed == "RuntimeError: Ghostscript compression failed"
OSError == "OSError"

\* Faulty variant: a fourth profile registered under "best".
quality_settings_extra ==
    [q \in {"low", "medium", "high", "best"} |->
        CASE q = "low" -> [quality |-> 30, dpi |-> 72]
          [] q = "medium" -> [quality |-> 60, dpi |-> 150]
          [] q = "high" -> [quality |-> 90, dpi |-> 300]
          [] q = "best" -> [quality |-> 100, dpi |-> 600]]

quality_settings ==
    [q \in {"low", "medium", "high"} |->
        CASE q = "low" -> [quality |-> 30, dpi |-> 72]
          [] q = "medium" -> [quality |-> 60, dpi |-> 150]
          [] q = "high" -> [quality |-> 90, dpi |-> 300]]

\* main()'s except clause and the end of the process.
ExitCodeFor(who, result) ==
    IF who = "main" THEN (IF result = "returned" THEN <<0>> ELSE <<1>>) ELSE << >>

Finish(result) ==
    /\ pc' = "done"
    /\ outcome' = result
    /\ exit_code' = ExitCodeFor(caller, result)

\* os.path.join(os.path.dirname(p), os.path.splitext(os.path.basename(p))[0])
Basename(p) == [stem |-> p.stem, suffix |-> p.suffix, ext |-> p.ext]
Dirname(p) == p.dir
SplitextRoot(b) == [stem |-> b.stem, suffix |-> b.suffix]
DefaultPrefix(p) ==
    LET base_name == SplitextRoot(Basename(p))
    IN  [dir |-> Dirname(p), stem |-> base_name.stem]

\* f"{output_prefix}_part{current_part}.pdf"
PartPath(prefix, n) == [dir |-> prefix.dir, stem |-> prefix.stem, suffix |-> <<n>>, ext |-> "pdf"]

\* ------------------------------------------------------------------- Init
Init ==
    /\ pc = "start"
    /\ caller = "none"
    /\ argv = << >>
    /\ mode = "none"
    /\ called = "none"
    /\ doc = << >>
    /\ input_size = 0
    /\ max_size_mb = 0
    /\ output_prefix = << >>
    /\ max_size_bytes = 0
    /\ parts = << >>
    /\ current_part = 0
    /\ current_writer = << >>
    /\ current_size_estimate = 0
    /\ page_idx = 0
    /\ part_files = << >>
    /\ temp_files = 0
    /\ quality = ""
    /\ temp_dir = "none"
    /\ temp_pdf = FALSE
    /\ input_opens = 0
    /\ gs_dpi = 0
    /\ gs_quality = 0
    /\ gs_located = "unknown"
    /\ gs_runs = 0
    /\ gs_cmd = << >>
    /\ gs_exit = << >>
    /\ output_written = FALSE
    /\ outcome = "none"
    /\ retval = << >>
    /\ exit_code = << >>

\* ------------------------------------------------------------ entry points
\* main(): parse the arguments, check the input exists, dispatch.  -v only
\* prints sizes and is left out; part paths are taken to differ from the
\* input path.
Main(split, output, q, prefix, exists) ==
    /\ pc = "start"
    /\ caller' = "main"
    /\ argv' = <<[split |-> split, output |-> output, quality |-> q, prefix |-> prefix]>>
    /\ IF ~exists
       THEN /\ mode' = "none"
            /\ called' = "none"
            /\ pc' = "done"
            /\ outcome' = "SystemExit"
            /\ exit_code' = <<1>>
            /\ UNCHANGED <<envVars, splitVars, compressVars>>
       ELSE IF TruthyInt(split)
       THEN /\ mode' = "split"
            /\ called' = "split_pdf"
            /\ pc' = "split_pdf"
            /\ max_size_mb' = split[1]
            /\ output_prefix' = prefix
            /\ doc' \in Documents
            /\ input_size' \in InputSizes
            /\ UNCHANGED <<max_size_bytes, parts, current_part, current_writer,
                           current_size_estimate, page_idx, part_files, temp_files,
                           retval, compressVars, outcome, exit_code>>
       ELSE IF ~TruthyStr(output)
       THEN /\ mode' = "compress"
            /\ called' = "none"
            /\ pc' = "done"
            /\ outcome' = "SystemExit"
            /\ exit_code' = <<1>>
            /\ UNCHANGED <<envVars, splitVars, compressVars>>
       ELSE /\ mode' = "compress"
            /\ called' = "compress_pdf"
            /\ pc' = "compress_pdf"
            /\ quality' = q
            /\ UNCHANGED <<envVars, splitVars, temp_dir, temp_pdf, outcome, exit_code>>
    /\ UNCHANGED <<gsVars, input_opens>>

\* A direct call of split_pdf(input_path, max_size_mb, output_prefix).
ApiSplit(mb, prefix) ==
    /\ pc = "start"
    /\ caller' = "api"
    /\ called' = "split_pdf"
    /\ pc' = "split_pdf"
    /\ max_size_mb' = mb
    /\ output_prefix' = prefix
    /\ doc' \in Documents
    /\ input_size' \in InputSizes
    /\ UNCHANGED <<argv, mode, max_size_bytes, parts, current_part, current_writer,
                   current_size_estimate, page_idx, part_files, temp_files, retval,
                   compressVars, gsVars, input_opens, outcome, exit_code>>

\* A direct call of compress_pdf(input_path, output_path, quality).
ApiCompress(q) ==
    /\ pc = "start"
    /\ caller' = "api"
    /\ called' = "compress_pdf"
    /\ pc' = "compress_pdf"
    /\ quality' = q
    /\ UNCHANGED <<argv, mode, envVars, splitVars, temp_dir, temp_pdf, gsVars,
                   input_opens, outcome, exit_code>>

\* A direct call of _run_ghostscript(input_path, output_path, dpi, quality).
ApiRunGhostscript(dpi, q) ==
    /\ pc = "start"
    /\ caller' = "api"
    /\ called' = "_run_ghostscript"
    /\ pc' = "run_ghostscript"
    /\ gs_dpi' = dpi
    /\ gs_quality' = q
    /\ UNCHANGED <<argv, mode, envVars, splitVars, compressVars, gs_located, gs_runs,
                   gs_cmd, gs_exit, output_written, input_opens, outcome, exit_code>>

\* ---------------------------------------------------------------- split_pdf
\* Faulty variant: a strict comparison, so a file of exactly the threshold is split.
ShortCircuitStrict(size, limit) == size < limit

\* if input_size <= max_size_bytes: no splitting needed
ShortCircuit(size, limit) == size <= limit

\* Faulty variant: the overflow test leaves out the page about to be added.
NeedNewPartLate(estimate, temp_size, limit, held) ==
    estimate > limit /\ held > 0

\* Faulty variant: a part that would reach the threshold exactly is sealed too.
NeedNewPartAtLimit(estimate, temp_size, limit, held) ==
    estimate + temp_size >= limit /\ held > 0

\* current_size_estimate + temp_size > max_size_bytes and len(current_writer.pages) > 0
NeedNewPart(estimate, temp_size, limit, held) ==
    estimate + temp_size > limit /\ held > 0

\* Faulty variant: the writer is not replaced after a part was saved.
StaleWriter == current_writer

\* current_writer = PdfWriter() after a part was saved
FreshWriter == << >>

\* Faulty variant: the part number is not incremented.
SamePart(n) == n

\* current_part += 1
NextPart(n) == n + 1

\* with open(part_path, "wb") as f_out: current_writer.write(f_out)
WritePart(files, path, writer, estimate) ==
    Append(files, [path |-> path, pages |-> writer, estimate |-> estimate])

\* The prologue: byte threshold, default prefix, open, size check, reader.
SplitBegin ==
    /\ pc = "split_pdf"
    /\ max_size_bytes' = max_size_mb * 1024 * 1024
    /\ output_prefix' = IF output_prefix = << >> THEN <<DefaultPrefix(InputPath)>>
                                                ELSE output_prefix
    /\ input_opens' = input_opens + 1
    /\ IF ShortCircuit(input_size, max_size_bytes')
       THEN /\ retval' = <<InputPath>>
            /\ Finish("returned")
            /\ UNCHANGED <<parts, current_part>>
       ELSE /\ pc' = "split_loop"
            /\ parts' = << >>
            /\ current_part' = 1
            /\ UNCHANGED <<retval, outcome, exit_code>>
    /\ current_writer' = << >>
    /\ current_size_estimate' = 0
    /\ page_idx' = 0
    /\ UNCHANGED <<cliVars, envVars, max_size_mb, part_files, temp_files,
                   compressVars, gsVars>>

\* open(input_path, "rb") raises.
SplitOpenFails ==
    /\ pc = "split_pdf"
    /\ max_size_bytes' = max_size_mb * 1024 * 1024
    /\ output_prefix' = IF output_prefix = << >> THEN <<DefaultPrefix(InputPath)>>
                                                ELSE output_prefix
    /\ Finish(OSError)
    /\ UNCHANGED <<cliVars, envVars, max_size_mb, parts, current_part, current_writer,
                   current_size_estimate, page_idx, part_files, temp_files, retval,
                   compressVars, gsVars, input_opens>>

\* One iteration of "for page in pdf.pages"; fails when the part file cannot
\* be written (write_ok is what the file system answers).
SplitPage(write_ok) ==
    /\ pc = "split_loop"
    /\ page_idx < Len(doc)
    /\ LET page == page_idx + 1
           temp_size == doc[page]
           part_path == PartPath(output_prefix[1], current_part)
       IN  /\ temp_files' = temp_files + 1
           /\ IF NeedNewPart(current_size_estimate, temp_size, max_size_bytes,
                             Len(current_writer))
              THEN IF write_ok
                   THEN /\ part_files' = WritePart(part_files, part_path, current_writer,
                                                   current_size_estimate)
                        /\ parts' = Append(parts, part_path)
                        /\ current_part' = NextPart(current_part)
                        /\ current_writer' = Append(FreshWriter, page)
                        /\ current_size_estimate' = 0 + temp_size
                        /\ page_idx' = page
                        /\ UNCHANGED <<pc, outcome, exit_code>>
                   ELSE /\ Finish(OSError)
                        /\ UNCHANGED <<part_files, parts, current_part, current_writer,
                                       current_size_estimate, page_idx>>
              ELSE /\ write_ok
                   /\ current_writer' = Append(current_writer, page)
                   /\ current_size_estimate' = current_size_estimate + temp_size
                   /\ page_idx' = page
                   /\ UNCHANGED <<part_files, parts, current_part, pc, outcome, exit_code>>
    /\ UNCHANGED <<cliVars, envVars, max_size_mb, output_prefix, max_size_bytes, retval,
                   compressVars, gsVars, input_opens>>

\* After the loop: save the final part and return the paths.
SplitFinish(write_ok) ==
    /\ pc = "split_loop"
    /\ page_idx = Len(doc)
    /\ LET part_path == PartPath(output_prefix[1], current_part)
       IN  IF Len(current_writer) > 0
           THEN IF write_ok
                THEN /\ part_files' = WritePart(part_files, part_path, current_writer,
                                                current_size_estimate)
                     /\ parts' = Append(parts, part_path)
                     /\ retval' = parts'
                     /\ Finish("returned")
                ELSE /\ Finish(OSError)
                     /\ UNCHANGED <<part_files, parts, retval>>
           ELSE /\ write_ok
                /\ retval' = parts
                /\ Finish("returned")
                /\ UNCHANGED <<part_files, parts>>
    /\ UNCHANGED <<cliVars, envVars, max_size_mb, output_prefix, max_size_bytes,
                   current_part, current_writer, current_size_estimate, page_idx,
                   temp_files, compressVars, gsVars, input_opens>>

\* ------------------------------------------------------------- compress_pdf
\* Faulty variant: the directory is removed on the normal path only.
TempDirOnSuccessOnly(dir, result) ==
    IF dir = "exists" /\ result = "returned" THEN "removed" ELSE dir

\* finally: shutil.rmtree(temp_dir), on the way out with `result`
TempDirAfterExit(dir, result) == IF dir = "exists" THEN "removed" ELSE dir

\* if quality not in self.quality_settings: raise ValueError; tempfile.mkdtemp()
CompressBegin ==
    /\ pc = "compress_pdf"
    /\ IF quality \notin DOMAIN quality_settings
       THEN /\ Finish(ValueError)
            /\ UNCHANGED temp_dir
       ELSE /\ temp_dir' = "exists"
            /\ pc' = "compress_copy"
            /\ UNCHANGED <<outcome, exit_code>>
    /\ UNCHANGED <<cliVars, envVars, splitVars, quality, temp_pdf, gsVars, input_opens>>

\* Read the input, copy its pages, write temp.pdf, call _run_ghostscript.
CompressCopy ==
    /\ pc = "compress_copy"
    /\ input_opens' = input_opens + 1
    /\ temp_pdf' = TRUE
    /\ gs_dpi' = quality_settings[quality].dpi
    /\ gs_quality' = quality_settings[quality].quality
    /\ pc' = "run_ghostscript"
    /\ UNCHANGED <<cliVars, envVars, splitVars, quality, temp_dir, gs_located, gs_runs,
                   gs_cmd, gs_exit, output_written, outcome, exit_code>>

\* The input cannot be opened (opened = FALSE), or reading it or writing
\* temp.pdf raises (opened = TRUE; temp.pdf may exist, partly written).
CompressCopyFails(opened, partial) ==
    /\ pc = "compress_copy"
    /\ opened \/ ~partial
    /\ input_opens' = IF opened THEN input_opens + 1 ELSE input_opens
    /\ temp_pdf' = partial
    /\ temp_dir' = TempDirAfterExit(temp_dir, OSError)
    /\ Finish(OSError)
    /\ UNCHANGED <<cliVars, envVars, splitVars, quality, gsVars>>

\* ---------------------------------------------------------- _run_ghostscript
\* Faulty variant: the engine is run without looking at what which() answered.
GsAssumed(found) == TRUE

\* if not shutil.which("gs"): raise
GsAvailable(found) == found

\* Faulty variant: strict thresholds.
GetGsPresetStrict(dpi, q) ==
    IF dpi < 72 THEN "screen"
    ELSE IF dpi < 150 THEN "ebook"
    ELSE IF dpi < 300 THEN "printer"
    ELSE "prepress"

\* _get_gs_preset(dpi, quality)
GetGsPreset(dpi, q) ==
    IF dpi <= 72 THEN "screen"
    ELSE IF dpi <= 150 THEN "ebook"
    ELSE IF dpi <= 300 THEN "printer"
    ELSE "prepress"

GsCommand(in_path, out_path, dpi, q) ==
    [program |-> "gs", device |-> "pdfwrite", compatibility |-> "1.4",
     preset |-> GetGsPreset(dpi, q), output |-> out_path, input |-> in_path]

\* shutil.which("gs"): found is what the system path answers.
RunGhostscriptWhich(found) ==
    /\ pc = "run_ghostscript"
    /\ gs_located' = IF found THEN "found" ELSE "missing"
    /\ IF GsAvailable(found)
       THEN /\ pc' = "gs_run"
            /\ UNCHANGED <<temp_dir, outcome, exit_code>>
       ELSE /\ temp_dir' = TempDirAfterExit(temp_dir, GsNotFound)
            /\ Finish(GsNotFound)
    /\ UNCHANGED <<cliVars, envVars, splitVars, quality, temp_pdf, gs_dpi, gs_quality,
                   gs_runs, gs_cmd, gs_exit, output_written, input_opens>>

\* subprocess.run(cmd, check=True): status is the engine's exit status, wrote
\* whether it left an output file (always, when it succeeds).
RunGhostscriptExec(status, wrote) ==
    /\ pc = "gs_run"
    /\ status = 0 => wrote
    /\ gs_runs' = gs_runs + 1
    /\ gs_cmd' = <<GsCommand(IF temp_pdf THEN "temp_dir/temp.pdf" ELSE "input",
                             OutputPath, gs_dpi, gs_quality)>>
    /\ gs_exit' = <<status>>
    /\ output_written' = wrote
    /\ LET result == IF status = 0 THEN "returned" ELSE GsFailed
       IN  /\ temp_dir' = TempDirAfterExit(temp_dir, result)
           /\ Finish(result)
    /\ UNCHANGED <<cliVars, envVars, splitVars, quality, temp_pdf, gs_dpi, gs_quality,
                   gs_located, input_opens>>

\* --------------------------------------------------------------------- Next
OptionalOf(S) == {<< >>} \cup {<<x>> : x \in S}

\* The command lines tried: every compress-mode one, and the split-mode ones
\* with the default quality.
CommandLines ==
    {[split |-> split, output |-> output, quality |-> q, prefix |-> prefix] :
        split \in OptionalOf(SplitSizes), output \in OptionalOf({"", OutputPath}),
        q \in CliQualityChoices, prefix \in OptionalOf({GivenPrefix})}

Tried(a) ==
    \/ a.split = << >> /\ a.prefix = << >>
    \/ a.split # << >> /\ a.quality = "medium" /\ a.output # <<"">>

Next ==
    \/ /\ pc = "start"
       /\ \E a \in {c \in CommandLines : Tried(c)}, exists \in BOOLEAN :
            Main(a.split, a.output, a.quality, a.prefix, exists)
    \/ /\ pc = "start"
       /\ \E mb \in SplitSizes, prefix \in OptionalOf({GivenPrefix}) : ApiSplit(mb, prefix)
    \/ /\ pc = "start"
       /\ \E q \in QualityNames : ApiCompress(q)
    \/ /\ pc = "start"
       /\ \E dpi \in Dpis, q \in QualityPercents : ApiRunGhostscript(dpi, q)
    \/ SplitBegin
    \/ SplitOpenFails
    \/ \E write_ok \in BOOLEAN : SplitPage(write_ok)
    \/ \E write_ok \in BOOLEAN : SplitFinish(write_ok)
    \/ CompressBegin
    \/ CompressCopy
    \/ \E opened \in BOOLEAN, partial \in BOOLEAN : CompressCopyFails(opened, partial)
    \/ \E found \in BOOLEAN : RunGhostscriptWhich(found)
    \/ \E status \in ExitStatuses, wrote \in BOOLEAN : RunGhostscriptExec(status, wrote)

Spec == Init /\ [][Next]_vars

\* ------------------------------------------------------------ the properties
ValidQualities == {"low", "medium", "high"}

\* The byte threshold of the call, from its argument.
Threshold == max_size_mb * MiB

\* split_pdf went past the size check and returned.
SplitCompleted ==
    /\ called = "split_pdf"
    /\ pc = "done"
    /\ outcome = "returned"
    /\ input_size > Threshold

\* The prefix the part files are named after.
ExpectedPrefix ==
    IF output_prefix = << >> THEN [dir |-> "docs", stem |-> "report"] ELSE output_prefix[1]

ExpectedPartPath(i) ==
    [dir |-> ExpectedPrefix.dir, stem |-> ExpectedPrefix.stem, suffix |-> <<i>>, ext |-> "pdf"]

\* What is on disk at a path: the pages of the last file written there.
Written(path) == {k \in 1..Len(part_files) : part_files[k].path = path}
FileContent(path) ==
    LET ks == Written(path)
    IN  IF ks = {} THEN << >>
        ELSE part_files[CHOOSE k \in ks : \A j \in ks : j <= k].pages

EstimateOf(pages) == SumSeq([j \in 1..Len(pages) |-> doc[pages[j]]])

Identity(n) == [i \in 1..n |-> i]

\* C1: when split_pdf goes past the size check and returns, the pages of the
\* files named part 1, part 2, ... read in that order are exactly the input's
\* pages 1..n in order: none dropped, none duplicated, none reordered.  While
\* the loop runs, the sealed parts followed by the open part are the pages
\* read so far.
C1_PagesPreserved ==
    /\ SplitCompleted =>
          Concat([n \in 1..Len(retval) |-> FileContent(ExpectedPartPath(n))])
             = Identity(Len(doc))
    /\ pc = "split_loop" =>
          Concat([k \in 1..Len(part_files) |-> part_files[k].pages]) \o current_writer
             = Identity(page_idx)

C1_Witness ==
    /\ SplitCompleted
    /\ Len(doc) = 3
    /\ Len(part_files) = 2
    /\ part_files[1].pages = <<1, 2>>
    /\ part_files[2].pages = <<3>>

\* C2: once compress_pdf has ended, however it ended, the scratch directory
\* it created is gone; if it ended before creating one, there is none.
C2_ScratchRemoved ==
    (called = "compress_pdf" /\ pc = "done") =>
        /\ temp_dir # "exists"
        /\ outcome \in {"returned", GsNotFound, GsFailed, OSError} => temp_dir = "removed"

C2_Witness ==
    /\ called = "compress_pdf"
    /\ pc = "done"
    /\ outcome = GsFailed
    /\ temp_pdf
    /\ temp_dir = "removed"

\* C3: every part written has an accumulated estimate (the sum of its pages'
\* estimates) at most the threshold, or holds exactly one page; the same holds
\* of the open part.  So a page whose own estimate exceeds the threshold is
\* alone in its part, and once split_pdf returns it is in a part.
C3_SealedWithinBudget ==
    called = "split_pdf" =>
        /\ \A k \in 1..Len(part_files) :
              /\ part_files[k].estimate = EstimateOf(part_files[k].pages)
              /\ part_files[k].estimate <= Threshold \/ Len(part_files[k].pages) = 1
              /\ \A j \in 1..Len(part_files[k].pages) :
                    doc[part_files[k].pages[j]] > Threshold => Len(part_files[k].pages) = 1
        /\ current_writer # << >> =>
              current_size_estimate <= Threshold \/ Len(current_writer) = 1
        /\ SplitCompleted =>
              \A i \in 1..Len(doc) :
                  doc[i] > Threshold => \E k \in 1..Len(part_files) : part_files[k].pages = <<i>>

C3_Witness ==
    /\ SplitCompleted
    /\ Threshold > 0
    /\ Len(part_files) = 3
    /\ part_files[2].pages = <<2>>
    /\ part_files[2].estimate > Threshold
    /\ part_files[1].estimate <= Threshold
    /\ part_files[3].estimate <= Threshold

\* C4: the paths recorded are exactly the files written, in order; the i-th
\* is "<prefix>_part<i>.pdf", i = 1..K; every file written holds at least one
\* page; and what split_pdf returns past the size check is that list.
C4_ContiguousNumbering ==
    called = "split_pdf" =>
        /\ Len(parts) = Len(part_files)
        /\ \A i \in 1..Len(part_files) :
              /\ parts[i] = ExpectedPartPath(i)
              /\ part_files[i].path = ExpectedPartPath(i)
              /\ Len(part_files[i].pages) >= 1
        /\ SplitCompleted => retval = parts

C4_Witness ==
    /\ SplitCompleted
    /\ Len(retval) = 3
    /\ output_prefix = <<GivenPrefix>>
    /\ retval[3] = [dir |-> "out", stem |-> "chunk", suffix |-> <<3>>, ext |-> "pdf"]

\* C5: when the input's size on disk is at most the threshold, split_pdf never
\* enters the page loop, writes no part file and creates no temporary file,
\* and what it returns is the input path alone.
C5_ShortCircuit ==
    (called = "split_pdf" /\ input_size <= Threshold) =>
        /\ pc \in {"split_pdf", "done"}
        /\ part_files = << >>
        /\ temp_files = 0
        /\ outcome = "returned" => retval = <<InputPath>>

C5_Witness ==
    /\ called = "split_pdf"
    /\ input_size = Threshold
    /\ input_size > 0
    /\ Len(doc) > 0
    /\ outcome = "returned"
    /\ retval = <<InputPath>>

\* C6: compress_pdf with a quality name other than low, medium, high ends in
\* its first step with the invalid-quality error, with no scratch directory,
\* the input never opened, the engine neither looked up nor run, no output.
C6_InvalidQualityNoIO ==
    (called = "compress_pdf" /\ quality \notin ValidQualities) =>
        /\ pc \in {"compress_pdf", "done"}
        /\ pc = "done" => outcome = ValueError
        /\ temp_dir = "none"
        /\ ~temp_pdf
        /\ input_opens = 0
        /\ gs_located = "unknown"
        /\ gs_runs = 0
        /\ ~output_written

C6_Witness ==
    /\ called = "compress_pdf"
    /\ quality = "best"
    /\ pc = "done"
    /\ outcome = ValueError

\* C7: the engine is run at most once and only after it was found on the
\* path; not found means the missing-engine error and no run; a non-zero exit
\* means the engine-failed error; a return means one run that exited 0.
C7_EngineInvocation ==
    /\ gs_runs <= 1
    /\ gs_runs = 1 => gs_located = "found"
    /\ gs_located = "missing" => pc = "done" /\ outcome = GsNotFound /\ gs_runs = 0
    /\ (gs_exit # << >> /\ gs_exit # <<0>>) => pc = "done" /\ outcome = GsFailed
    /\ (called \in {"compress_pdf", "_run_ghostscript"} /\ outcome = "returned") =>
          gs_runs = 1 /\ gs_exit = <<0>>

C7_Witness ==
    /\ called = "compress_pdf"
    /\ gs_located = "found"
    /\ gs_runs = 1
    /\ gs_exit = <<1>>
    /\ outcome = GsFailed

\* C8: a command line that gives a split size is routed to split mode, one
\* that gives none to compress mode, and compress mode without an output
\* path exits 1 without calling compress_pdf.  (mode is "none" only when the
\* input file does not exist.)
C8_Routing ==
    (caller = "main" /\ mode # "none") =>
        /\ argv[1].split # << >> => mode = "split" /\ called = "split_pdf"
        /\ argv[1].split = << >> => mode = "compress"
        /\ (mode = "compress" /\ argv[1].output = << >>) =>
              exit_code = <<1>> /\ called = "none"

\* The preset as the step function of the DPI.
PresetStep(dpi) ==
    CASE dpi <= 72 -> "screen"
      [] dpi > 72 /\ dpi <= 150 -> "ebook"
      [] dpi > 150 /\ dpi <= 300 -> "printer"
      [] dpi > 300 -> "prepress"

\* C9: the preset in the command run is the step function of the DPI handed
\* to _run_ghostscript, whatever the quality percentage; compress_pdf with
\* low, medium, high runs screen, ebook, printer, never prepress.
C9_PresetStepFunction ==
    gs_cmd # << >> =>
        /\ gs_cmd[1].preset = PresetStep(gs_dpi)
        /\ called = "compress_pdf" =>
              /\ quality = "low" => gs_cmd[1].preset = "screen"
              /\ quality = "medium" => gs_cmd[1].preset = "ebook"
              /\ quality = "high" => gs_cmd[1].preset = "printer"
              /\ gs_cmd[1].preset # "prepress"

C9_Witness ==
    /\ called = "_run_ghostscript"
    /\ gs_dpi = 72
    /\ gs_quality = 100
    /\ gs_cmd # << >>
    /\ gs_cmd[1].preset = "screen"

\* The pages of the part after the k-th written one: the next written part,
\* or, while the loop runs, the open part.
PartAfter(k) ==
    IF k < Len(part_files) THEN part_files[k + 1].pages
    ELSE IF pc = "split_loop" THEN current_writer
    ELSE << >>

\* Pages a..b.
Run(a, b) == [i \in 1..(b - a + 1) |-> a + i - 1]
Min(a, b) == IF a <= b THEN a ELSE b

\* The scenario: equal-size pages of which four fit and five do not.
FourFit ==
    /\ doc # << >>
    /\ \A i \in 1..Len(doc) : doc[i] = doc[1]
    /\ 4 * doc[1] <= Threshold
    /\ 5 * doc[1] > Threshold

\* C10: the boundaries are the greedy ones.  A part's estimate is the sum of
\* its own pages' estimates; within a part (written or open), every page
\* after the first fitted: the estimates before it in the part plus its own
\* are at most the threshold; and each written part followed by a page did
\* not fit that page: its estimate plus that page's exceeds the threshold.
\* With equal-size pages of which 4 fit and 5 do not, the parts are pages
\* 1-4, 5-8, ... (9-10 for ten pages).
C10_GreedyBoundaries ==
    called = "split_pdf" =>
        /\ current_size_estimate = EstimateOf(current_writer)
        /\ \A k \in 1..Len(part_files) :
              /\ part_files[k].estimate = EstimateOf(part_files[k].pages)
              /\ \A j \in 2..Len(part_files[k].pages) :
                    EstimateOf(SubSeq(part_files[k].pages, 1, j)) <= Threshold
              /\ PartAfter(k) # << >> =>
                    part_files[k].estimate + doc[PartAfter(k)[1]] > Threshold
        /\ \A j \in 2..Len(current_writer) :
              EstimateOf(SubSeq(current_writer, 1, j)) <= Threshold
        /\ (SplitCompleted /\ FourFit) =>
              /\ Len(part_files) = (Len(doc) + 3) \div 4
              /\ \A k \in 1..Len(part_files) :
                    part_files[k].pages = Run(4 * (k - 1) + 1, Min(4 * k, Len(doc)))

C10_Witness ==
    /\ SplitCompleted
    /\ FourFit
    /\ Len(doc) = 10
    /\ Len(part_files) = 3
    /\ part_files[1].pages = <<1, 2, 3, 4>>
    /\ part_files[2].pages = <<5, 6, 7, 8>>
    /\ part_files[3].pages = <<9, 10>>

====
